---- MODULE Spec2Model ----
(***************************************************************************)
(* Model of cmd/common.go of ethutil: the receipt poller getTxReceipt, the *)
(* recovery-id derivation getRecoveryId, the signature encoder             *)
(* buildECDSASignature, the error diagnostics checkErr and the Transact    *)
(* workflow.                                                               *)
(*                                                                         *)
(* Time is counted in whole seconds since the call began.  Errors are      *)
(* sequences of strings: the outermost wrapping context first, <<>> is the *)
(* nil error.  A nil pointer is the empty sequence, a non-nil one <<x>>.   *)
(***************************************************************************)
EXTENDS Integers, Sequences, FiniteSets, TLC

VARIABLES
    op,          \* which function of common.go this run calls
    pc,          \* position inside the running function
    \* ---- getTxReceipt
    timeout,     \* parameter timeout, seconds
    beginTime,   \* local beginTime
    now,         \* the wall clock (time.Now())
    source,      \* the node's behaviour for the polled hash
    polledHash,  \* parameter txHash (<<>> before the call)
    lookups,     \* number of client.TransactionReceipt calls made
    waits,       \* number of time.Sleep(5s) calls made
    rp,          \* returned receipt (<<>> is nil)
    rpErr,       \* returned error
    \* ---- getRecoveryId
    v,           \* parameter v
    recoveryId,  \* returned recovery id (<<>> before the return)
    \* ---- buildECDSASignature
    r,           \* r.Bytes(): big-endian, no leading zero byte
    s,           \* s.Bytes()
    signature,   \* returned bytes (<<>> before the return)
    \* ---- Transact: parameters and the process-wide options it reads
    toAddress,                     \* parameter toAddress (<<>> is nil)
    amount,                        \* parameter amount
    gasPrice,                      \* parameter gasPrice (<<>> is nil)
    data,                          \* parameter data
    globalOptNonce,
    globalOptGasLimit,
    globalOptTxType,
    globalOptMaxPriorityFeePerGas,
    globalOptMaxFeePerGas,
    globalOptDryRun,
    transferNotCheck,
    \* ---- Transact: locals, what the node answered, and the outcome
    frame,       \* the locals of Transact
    feeHistory,  \* the answer of eth_feeHistory (<<>> before the call)
    baseFee,     \* base fee of the latest block (<<>> before the call)
    destCode,    \* the answer of CodeAt (<<>> before the call)
    calls,       \* the external calls made so far, as <<call, succeeded>>
    callErr,     \* the error of the last external call; checkErr's parameter
    log,         \* the kinds of lines logged so far
    ret,         \* returned hash (<<>> is the empty string)
    retErr,      \* returned error
    \* ---- checkErr
    funcHash,    \* local funcHash (<<>> while no lookup was made)
    funcSig,     \* what GetFuncSig returned (<<>> before the return)
    fatal        \* the error log.Fatalf reported (<<>> before it)

pollVars == <<timeout, beginTime, now, source, polledHash, lookups, waits, rp, rpErr>>
recVars == <<v, recoveryId, r, s, signature>>
txIn == <<toAddress, amount, gasPrice, data, globalOptNonce, globalOptGasLimit,
          globalOptTxType, globalOptMaxPriorityFeePerGas, globalOptMaxFeePerGas,
          globalOptDryRun, transferNotCheck>>
txEnv == <<feeHistory, baseFee, destCode>>
txOut == <<ret, retErr>>
callVars == <<calls, callErr>>
txVars == <<txIn, frame, txEnv, callVars, log, txOut>>
errVars == <<funcHash, funcSig, fatal>>
vars == <<op, pc, pollVars, recVars, txVars, errVars>>

----------------------------------------------------------------------------
\* Bounds of the model.
MaxK == 2           \* longest run of "not found" answers before the final one
MaxLatency == 1     \* longest single receipt lookup, seconds
MaxTimeout == 7     \* largest timeout passed to getTxReceipt, seconds
MaxV == 120         \* v ranges over 0..MaxV

\* Program constants.
SleepSeconds == 5   \* time.Sleep(time.Second * 5)

\* The counters and the clock saturate above every value a comparison of the
\* code or of a property can distinguish, so that endless polling is a cycle.
MaxCount == MaxK + 2
MaxClock == MaxTimeout + SleepSeconds * MaxK
Bump(n) == IF n < MaxCount THEN n + 1 ELSE n
Advance(t, d) == IF t + d < MaxClock THEN t + d ELSE MaxClock

NoErr == <<>>
Nil == <<>>
Wrap(ctx, err) == <<ctx>> \o err

\* An error value as checkErr sees it: whether it is an rpc.DataError, and
\* what its ErrorData() is: nil, a string (its characters) or another value.
NoData == [kind |-> "nil", str |-> <<>>]
OtherData == [kind |-> "other", str |-> <<>>]
StringData(cs) == [kind |-> "string", str |-> cs]
NilError == [msg |-> "", dataError |-> FALSE, data |-> NoData]
PlainError(m) == [msg |-> m, dataError |-> FALSE, data |-> NoData]
DataError(d) == [msg |-> "rpc error", dataError |-> TRUE, data |-> d]

----------------------------------------------------------------------------
\* The receipt source: "not found" for the first k lookups (for every lookup
\* when forever), then the final answer.
Finals == {"success", "failed", "error"}
Sources ==
    {[forever |-> TRUE, k |-> 0, final |-> "success"]}
        \cup [forever : {FALSE}, k : 0..MaxK, final : Finals]

\* client.TransactionReceipt: the answer to the n-th lookup, as <<rp, err>>.
TransactionReceipt(src, n) ==
    IF src.forever \/ n <= src.k
    THEN <<Nil, <<"not found">>>>
    ELSE IF src.final = "error"
         THEN <<Nil, <<"rpc error">>>>
         ELSE <<<<[status |-> src.final]>>, NoErr>>

PollIdle ==
    /\ timeout = 0 /\ beginTime = 0 /\ now = 0
    /\ source = [forever |-> FALSE, k |-> 0, final |-> "success"]
    /\ polledHash = Nil /\ lookups = 0 /\ waits = 0 /\ rp = Nil /\ rpErr = NoErr

RecIdle == v = 0 /\ recoveryId = Nil /\ r = <<>> /\ s = <<>> /\ signature = Nil

ErrIdle == funcHash = Nil /\ funcSig = Nil /\ fatal = Nil

NoFrame ==
    [nonce |-> 0, gasLimit |-> 0, gasPrice |-> Nil,
     maxPriorityFeePerGasEstimate |-> 0, maxFeePerGasEstimate |-> 0,
     tx |-> Nil, chainID |-> Nil, signedTx |-> Nil, rpcReturnTx |-> Nil]

TxQuiet ==
    /\ toAddress = Nil /\ amount = 0 /\ gasPrice = Nil /\ data = <<>>
    /\ globalOptNonce = 0 /\ globalOptGasLimit = 0 /\ globalOptTxType = "legacy"
    /\ globalOptMaxPriorityFeePerGas = "" /\ globalOptMaxFeePerGas = ""
    /\ globalOptDryRun = FALSE /\ transferNotCheck = FALSE
    /\ frame = NoFrame /\ feeHistory = Nil /\ baseFee = Nil /\ destCode = Nil
    /\ calls = {} /\ log = {} /\ ret = Nil /\ retErr = NoErr

TxIdle == TxQuiet /\ callErr = NilError

----------------------------------------------------------------------------
\* getTxReceipt (common.go:160-185)

\* A poller that forgets the "0 means unbounded" sentinel.
TimedOutNoSentinel(to, begin, t) == t >= begin + to

\* beginTime.Add(timeout).After(time.Now()) guarded by timeout > 0 (line 176).
TimedOut(to, begin, t) == to > 0 /\ begin + to > t

\* A poller that retries after every failed lookup.
RetryAnyError(e) == TRUE

\* Line 166: err == ethereum.NotFound.
IsNotFound(e) == e = <<"not found">>

\* Where a return of getTxReceipt leads: back into Transact, or the end.
PollReturn == IF op = "Transact" THEN "receiptReturned" ELSE "done"

\* Lines 164-174: one lookup, taking d seconds.  Oversleeping of the previous
\* time.Sleep is part of d: the clock is not read in between.
Lookup ==
    /\ pc = "recheck"
    /\ \E d \in 0..MaxLatency :
        LET ans == TransactionReceipt(source, lookups + 1) IN
        /\ now' = Advance(now, d)
        /\ lookups' = Bump(lookups)
        /\ IF ans[2] # NoErr
           THEN IF IsNotFound(ans[2])
                THEN /\ pc' = "checkTimeout"
                     /\ UNCHANGED <<rp, rpErr>>
                ELSE /\ pc' = PollReturn
                     /\ rp' = Nil
                     /\ rpErr' = Wrap("TransactionReceipt fail", ans[2])
           ELSE /\ pc' = PollReturn
                /\ rp' = ans[1]
                /\ rpErr' = NoErr
    /\ UNCHANGED <<op, errVars, timeout, beginTime, source, polledHash, waits, recVars, txVars>>

\* Lines 176-179: the timeout test after a "not found" answer.
CheckTimeout ==
    /\ pc = "checkTimeout"
    /\ IF TimedOut(timeout, beginTime, now)
       THEN /\ pc' = PollReturn
            /\ rp' = Nil
            /\ rpErr' = <<"GetReceipt timeout">>
       ELSE /\ pc' = "sleep"
            /\ UNCHANGED <<rp, rpErr>>
    /\ UNCHANGED <<op, errVars, timeout, beginTime, now, source, polledHash, lookups, waits, recVars, txVars>>

\* Lines 182-184: sleep five seconds and jump back to the lookup.
Sleep ==
    /\ pc = "sleep"
    /\ now' = Advance(now, SleepSeconds)
    /\ waits' = Bump(waits)
    /\ pc' = "recheck"
    /\ UNCHANGED <<op, errVars, timeout, beginTime, source, polledHash, lookups, rp, rpErr, recVars, txVars>>

InitPoll ==
    /\ op = "getTxReceipt"
    /\ pc = "recheck"
    /\ timeout \in 0..MaxTimeout
    /\ beginTime = 0
    /\ now = 0
    /\ source \in Sources
    /\ polledHash = <<"0xhash">>
    /\ lookups = 0
    /\ waits = 0
    /\ rp = Nil
    /\ rpErr = NoErr
    /\ RecIdle
    /\ TxIdle
    /\ ErrIdle

NextPoll == Lookup \/ CheckTimeout \/ Sleep

SpecPoll == InitPoll /\ [][NextPoll]_vars

\* The calling thread is never suspended for ever: every step of the poller
\* that can be taken is eventually taken.
FairPoll == SpecPoll /\ WF_vars(NextPoll)

----------------------------------------------------------------------------
\* getRecoveryId (common.go:496-511)

\* Go's integer division truncates toward zero.
GoDiv(a, b) == IF a >= 0 THEN a \div b ELSE -((-a) \div b)

\* A derivation without the branch for v = 27 and v = 28.
getRecoveryIdNoLegacy(x) ==
    IF x = 0 \/ x = 1
    THEN x
    ELSE LET chainId == GoDiv(x - 35, 2) IN x - 35 - 2 * chainId

getRecoveryId(x) ==
    IF x = 0 \/ x = 1
    THEN x
    ELSE IF x = 27 \/ x = 28
         THEN x - 27
         ELSE LET chainId == GoDiv(x - 35, 2) IN x - 35 - 2 * chainId

CallGetRecoveryId ==
    /\ op = "getRecoveryId"
    /\ pc = "call"
    /\ recoveryId' = <<getRecoveryId(v)>>
    /\ pc' = "done"
    /\ UNCHANGED <<op, errVars, v, r, s, signature, pollVars, txVars>>

InitRec ==
    /\ op = "getRecoveryId"
    /\ pc = "call"
    /\ v \in 0..MaxV
    /\ recoveryId = Nil
    /\ r = <<>> /\ s = <<>> /\ signature = Nil
    /\ PollIdle
    /\ TxIdle
    /\ ErrIdle

NextRec == CallGetRecoveryId

SpecRec == InitRec /\ [][NextRec]_vars

----------------------------------------------------------------------------
\* buildECDSASignature (common.go:513-525)

PartLen == 32       \* make([]byte, 32, 32)

\* byte(x): the low eight bits of the int.
ToByte(x) == x % 256

\* Lines 517-520: copy(rBytes[32-len(b):], b) into 32 zero bytes.
PadLeft(bs) ==
    [i \in 1..PartLen |-> IF i <= PartLen - Len(bs) THEN 0 ELSE bs[i - (PartLen - Len(bs))]]

buildECDSASignature(x, rBytes, sBytes) ==
    LET id == getRecoveryId(x)
        rsBytes == PadLeft(rBytes) \o PadLeft(sBytes)
    IN rsBytes \o <<ToByte(id)>>

\* big.Int.Bytes() of the r and s passed: zero, one byte, two bytes, and the
\* full width.
BigEndians ==
    {<<>>, <<1>>, <<255>>, <<1, 0>>, [i \in 1..PartLen |-> 255 - i]}

CallBuildECDSASignature ==
    /\ op = "buildECDSASignature"
    /\ pc = "call"
    /\ recoveryId' = <<getRecoveryId(v)>>
    /\ signature' = buildECDSASignature(v, r, s)
    /\ pc' = "done"
    /\ UNCHANGED <<op, errVars, v, r, s, pollVars, txVars>>

InitSig ==
    /\ op = "buildECDSASignature"
    /\ pc = "call"
    /\ v \in 0..MaxV
    /\ recoveryId = Nil
    /\ r \in BigEndians
    /\ s \in BigEndians
    /\ signature = Nil
    /\ PollIdle
    /\ TxIdle
    /\ ErrIdle

NextSig == CallBuildECDSASignature

SpecSig == InitSig /\ [][NextSig]_vars

----------------------------------------------------------------------------
\* checkErr (common.go:39-61) and GetFuncSig (common.go:547-580)

MaxDataLen == 12     \* longest string error data passed to checkErr
MaxCandidates == 2   \* most signatures the database returns for one selector
SelectorLen == 10    \* errStr[0:10]

\* Revert data as the node reports it: "0x", the 4-byte selector, arguments.
RevertA == <<"0", "x", "8", "c", "9", "0", "5", "3", "6", "8", "0", "0", "0", "1">>
RevertB == <<"0", "x", "0", "8", "c", "3", "7", "9", "a", "0", "0", "0", "0", "2">>
Prefix(cs, n) == SubSeq(cs, 1, IF n < Len(cs) THEN n ELSE Len(cs))
DataStrings == {Prefix(cs, n) : cs \in {RevertA, RevertB}, n \in 0..MaxDataLen}

\* The errors checkErr is called with, the nil error included.
CheckErrInputs ==
    {NilError, PlainError("rpc error"), DataError(NoData), DataError(OtherData)}
        \cup {DataError(StringData(cs)) : cs \in DataStrings}

\* What GetFuncSig returns, as (rc, err): nil and an error when the request,
\* the read of the body or the decoding fails, else the names found.
LookupErrors == {PlainError("http error"), PlainError("read error"), PlainError("json error")}
SigAnswers ==
    [names : {<<>>}, err : LookupErrors]
        \cup [names : {[i \in 1..n |-> i] : n \in 0..MaxCandidates}, err : {NilError}]

\* A report of the lookup's error in place of the error passed in.
ReportedErrInner(param, inner) == inner

\* Line 58: err is the parameter; the err of line 50 is local to its block.
ReportedErr(param, inner) == param

\* Lines 41-48: the tests that lead to the lookup.
CheckErr ==
    /\ pc = "checkErr"
    /\ IF callErr = NilError
       THEN /\ pc' = "done"
            /\ UNCHANGED <<log, funcHash>>
       ELSE IF callErr.dataError
            THEN /\ log' = log \cup {"data field in error"}
                 /\ IF /\ callErr.data.kind # "nil"
                       /\ callErr.data.kind = "string"
                       /\ Len(callErr.data.str) >= SelectorLen
                    THEN /\ funcHash' = <<SubSeq(callErr.data.str, 1, SelectorLen)>>
                         /\ pc' = "getFuncSig"
                    ELSE /\ pc' = "fatal"
                         /\ UNCHANGED funcHash
            ELSE /\ pc' = "fatal"
                 /\ UNCHANGED <<log, funcHash>>
    /\ UNCHANGED <<op, funcSig, fatal, pollVars, recVars, txIn, frame, txEnv, callVars, txOut>>

\* Lines 49-55 and 547-580: the lookup and the logging of what it returned.
GetFuncSig ==
    /\ pc = "getFuncSig"
    /\ \E answer \in SigAnswers :
        /\ funcSig' = <<answer>>
        /\ calls' = calls \cup {<<"GetFuncSig", answer.err = NilError>>}
        /\ log' = log \cup (IF answer.err # NilError THEN {"getFuncSig failed"} ELSE {})
                      \cup (IF answer.names # <<>> THEN {"is signature of"} ELSE {})
    /\ pc' = "fatal"
    /\ UNCHANGED <<op, funcHash, fatal, callErr, pollVars, recVars, txIn, frame, txEnv, txOut>>

\* Line 58: log.Fatalf prints the error and ends the process.
LogFatal ==
    /\ pc = "fatal"
    /\ fatal' = <<ReportedErr(callErr, IF funcSig = Nil THEN NilError ELSE funcSig[1].err)>>
    /\ log' = log \cup {"fatal"}
    /\ pc' = "exited"
    /\ UNCHANGED <<op, funcHash, funcSig, pollVars, recVars, txIn, frame, txEnv, callVars, txOut>>

InitErr ==
    /\ op = "checkErr"
    /\ pc = "checkErr"
    /\ callErr \in CheckErrInputs
    /\ TxQuiet
    /\ ErrIdle
    /\ PollIdle
    /\ RecIdle

NextErr == CheckErr \/ GetFuncSig \/ LogFatal

SpecErr == InitErr /\ [][NextErr]_vars

----------------------------------------------------------------------------
\* Transact (common.go:250-486)

\* Bounds: the values the inputs and the node's answers range over.
NonceOverride == 5         \* the non-negative value of globalOptNonce
GasLimitOverride == 50000  \* the non-zero value of globalOptGasLimit
PendingNonce == 7          \* the answer of PendingNonceAt
GasPriceArg == 1           \* the non-nil value of the gasPrice parameter
AmountArg == 1             \* the value of the amount parameter
MaxTxK == 1                \* longest run of "not found" answers inside Transact
OracleGasPrice == 3        \* the answer of getGasPrice
MaxBaseFee == 2            \* base fees range over 1..MaxBaseFee
ChainId == 1               \* the answer of NetworkID

\* Program constants.
gasUsedByTransferEth == 21000
CreationGasLimit == 7000000
ContractGasLimit == 900000
GweiInWei == 1000000000
HistoryBlocks == 4

RpcErr == <<"rpc error">>
\* The errors a failing call of Transact returns: one without error data, and
\* one carrying revert data.
TxErrors == {PlainError("rpc error"), DataError(StringData(Prefix(RevertA, SelectorLen)))}
PriorityFeeStrings == {"", "0.2"}   \* globalOptMaxPriorityFeePerGas, gwei
MaxFeeStrings == {"", "1"}          \* globalOptMaxFeePerGas, gwei
LowRow == <<0, 1, 7>>                       \* 5th, 50th, 95th percentile
HighRow == <<2, 5, 9>>
\* The 4-block answers of eth_feeHistory, oldest block first: the oldest
\* and the newest block vary.
Histories ==
    {h \in [1..HistoryBlocks -> {LowRow, HighRow}] : h[2] = LowRow /\ h[3] = HighRow}
BaseFees == 1..MaxBaseFee

RECURSIVE Pow10(_)
Pow10(n) == IF n = 0 THEN 1 ELSE 10 * Pow10(n - 1)

\* The characters of an option string.
Chars(str) ==
    CASE str = "" -> <<>>
      [] str = "1" -> <<"1">>
      [] str = "0.2" -> <<"0", ".", "2">>

Digits == {"0", "1", "2", "3", "4", "5", "6", "7", "8", "9"}
DigitValue(c) ==
    CASE c = "0" -> 0 [] c = "1" -> 1 [] c = "2" -> 2 [] c = "3" -> 3 [] c = "4" -> 4
      [] c = "5" -> 5 [] c = "6" -> 6 [] c = "7" -> 7 [] c = "8" -> 8 [] c = "9" -> 9

\* The number a string of digits writes.
RECURSIVE DigitsValue(_)
DigitsValue(cs) ==
    IF cs = <<>> THEN 0
    ELSE 10 * DigitsValue(SubSeq(cs, 1, Len(cs) - 1)) + DigitValue(cs[Len(cs)])

\* decimal.NewFromString with its error dropped: the digits with the point
\* taken out are the coefficient, the number of digits after the point is
\* the negated exponent; the zero Decimal for a string that does not parse.
NewFromString(str) ==
    LET cs == Chars(str)
        points == {i \in 1..Len(cs) : cs[i] = "."}
        point == IF points = {} THEN Len(cs) + 1 ELSE CHOOSE i \in points : TRUE
        intString == SubSeq(cs, 1, point - 1) \o SubSeq(cs, point + 1, Len(cs))
        fraction == IF points = {} THEN 0 ELSE Len(cs) - point
    IN IF \/ Cardinality(points) > 1
          \/ intString = <<>>
          \/ \E i \in 1..Len(intString) : intString[i] \notin Digits
       THEN [value |-> 0, exp |-> 0]
       ELSE [value |-> DigitsValue(intString), exp |-> -fraction]

\* Decimal.Mul: the coefficients multiply, the exponents add.
DecimalMul(a, b) == [value |-> a.value * b.value, exp |-> a.exp + b.exp]

\* Decimal.BigInt: the integer part, the fraction cut off.
DecimalBigInt(d) ==
    IF d.exp >= 0 THEN d.value * Pow10(d.exp) ELSE GoDiv(d.value, Pow10(-d.exp))

\* A conversion that keeps only the whole gwei of the string.
GweiToWeiWhole(str) ==
    LET cs == Chars(str)
        points == {i \in 1..Len(cs) : cs[i] = "."}
        whole == IF points = {} THEN cs ELSE SubSeq(cs, 1, (CHOOSE i \in points : TRUE) - 1)
    IN DigitsValue(whole) * GweiInWei

\* Lines 376-378 and 387-389: a gwei string to wei.
GweiToWei(str) ==
    DecimalBigInt(DecimalMul(NewFromString(str), [value |-> GweiInWei, exp |-> 0]))

\* An estimator that averages over Reward[1], Reward[2], Reward[3].
RewardAverageNewest(h, i) == (h[2][i + 1] + h[3][i + 1] + h[4][i + 1]) \div 3

\* Lines 345-361: the average over Reward[0], Reward[1], Reward[2] of the
\* percentile with (0-based) index i; Reward[0] is the oldest block.
RewardAverage(h, i) == (h[1][i + 1] + h[2][i + 1] + h[3][i + 1]) \div 3

\* signedTx.Hash(): determined by the signed transaction.
HashOf(stx) == [keccak |-> stx]

\* One external call and whether it succeeded.
Called(call, ok) ==
    /\ calls' = calls \cup {<<call, ok>>}
    /\ callErr' \in IF ok THEN {NilError} ELSE TxErrors
CallsMade == {c[1] : c \in calls}
FailedCalls == {c[1] : c \in {d \in calls : ~d[2]}}

\* fmt.Errorf-and-return, and the call checkErr(err) with the error of the
\* call that just failed.
Return(h, e) == pc' = "done" /\ ret' = h /\ retErr' = e
PassToCheckErr == pc' = "checkErr" /\ UNCHANGED <<log, txOut>>

\* A heuristic that does not look at the payload.
HasPayloadNever(d) == FALSE

\* Line 279: len(data) > 0.
HasPayload(d) == Len(d) > 0

\* Lines 254-263.
ResolveNonce ==
    /\ op = "Transact" /\ pc = "nonce"
    /\ IF globalOptNonce < 0
       THEN \E ok \in BOOLEAN :
                /\ Called("PendingNonceAt", ok)
                /\ IF ok
                   THEN /\ frame' = [frame EXCEPT !.nonce = PendingNonce]
                        /\ pc' = "gasLimit"
                        /\ UNCHANGED txOut
                   ELSE /\ Return(Nil, Wrap("PendingNonceAt fail", RpcErr))
                        /\ UNCHANGED frame
       ELSE /\ frame' = [frame EXCEPT !.nonce = globalOptNonce]
            /\ pc' = "gasLimit"
            /\ UNCHANGED <<callVars, txOut>>
    /\ UNCHANGED <<op, errVars, pollVars, recVars, txIn, txEnv, log>>

\* Lines 68-77 and 265-283.
ResolveGasLimit ==
    /\ op = "Transact" /\ pc = "gasLimit"
    /\ IF globalOptGasLimit # 0
       THEN /\ frame' = [frame EXCEPT !.gasLimit = globalOptGasLimit]
            /\ pc' = "gasPrice"
            /\ UNCHANGED <<callVars, txOut, destCode>>
       ELSE IF toAddress = Nil
            THEN /\ frame' = [frame EXCEPT !.gasLimit = CreationGasLimit]
                 /\ pc' = "gasPrice"
                 /\ UNCHANGED <<callVars, txOut, destCode>>
            ELSE \E code \in {"err", "empty", "bytecode"} :
                     /\ Called("CodeAt", code # "err")
                     /\ IF code = "err"
                        THEN /\ Return(Nil, Wrap("isContractAddress fail", RpcErr))
                             /\ UNCHANGED <<frame, destCode>>
                        ELSE LET isContract == code # "empty"
                                 g1 == IF isContract THEN ContractGasLimit
                                       ELSE gasUsedByTransferEth
                                 g2 == IF HasPayload(data) THEN ContractGasLimit ELSE g1
                             IN /\ frame' = [frame EXCEPT !.gasLimit = g2]
                                /\ destCode' = <<code>>
                                /\ pc' = "gasPrice"
                                /\ UNCHANGED txOut
    /\ UNCHANGED <<op, errVars, pollVars, recVars, txIn, feeHistory, baseFee, log>>

\* Where the fee branch of line 293 and the test of line 296 lead.
AfterGasPrice ==
    IF globalOptTxType = "eip1559"
       /\ (globalOptMaxPriorityFeePerGas = "" \/ globalOptMaxFeePerGas = "")
    THEN "feeHistory"
    ELSE "build"

\* Lines 285-289.
ResolveGasPrice ==
    /\ op = "Transact" /\ pc = "gasPrice"
    /\ IF gasPrice = Nil
       THEN \E ok \in BOOLEAN :
                /\ Called("getGasPrice", ok)
                /\ IF ok
                   THEN /\ frame' = [frame EXCEPT !.gasPrice = <<OracleGasPrice>>]
                        /\ pc' = AfterGasPrice
                        /\ UNCHANGED <<txOut, log>>
                   ELSE /\ PassToCheckErr
                        /\ UNCHANGED frame
       ELSE /\ frame' = [frame EXCEPT !.gasPrice = gasPrice]
            /\ pc' = AfterGasPrice
            /\ UNCHANGED <<callVars, txOut, log>>
    /\ UNCHANGED <<op, errVars, pollVars, recVars, txIn, txEnv>>

\* Lines 343-361.
FetchFeeHistory ==
    /\ op = "Transact" /\ pc = "feeHistory"
    /\ \/ /\ Called("FeeHistory", FALSE)
          /\ PassToCheckErr
          /\ UNCHANGED <<frame, feeHistory>>
       \/ \E h \in Histories :
            LET slow == RewardAverage(h, 0)
                average == RewardAverage(h, 1)
                fast == RewardAverage(h, 2)
            IN /\ Called("FeeHistory", TRUE)
               /\ feeHistory' = <<h>>
               /\ frame' = [frame EXCEPT !.maxPriorityFeePerGasEstimate = average]
               /\ pc' = "latestBlock"
               /\ UNCHANGED <<txOut, log>>
    /\ UNCHANGED <<op, errVars, pollVars, recVars, txIn, baseFee, destCode>>

\* Lines 364-366.
FetchLatestBlock ==
    /\ op = "Transact" /\ pc = "latestBlock"
    /\ \/ /\ Called("BlockByNumber", FALSE)
          /\ PassToCheckErr
          /\ UNCHANGED <<frame, baseFee>>
       \/ \E b \in BaseFees :
            /\ Called("BlockByNumber", TRUE)
            /\ baseFee' = <<b>>
            /\ frame' = [frame EXCEPT !.maxFeePerGasEstimate =
                                         b + frame.maxPriorityFeePerGasEstimate]
            /\ pc' = "build"
            /\ UNCHANGED <<txOut, log>>
    /\ UNCHANGED <<op, errVars, pollVars, recVars, txIn, feeHistory, destCode>>

\* Lines 370-400: the dynamic-fee transaction.
DynamicFeeTx ==
    LET maxPriorityFeePerGas ==
            IF globalOptMaxPriorityFeePerGas = ""
            THEN frame.maxPriorityFeePerGasEstimate
            ELSE GweiToWei(globalOptMaxPriorityFeePerGas)
        maxFeePerGas ==
            IF globalOptMaxFeePerGas = ""
            THEN frame.maxFeePerGasEstimate
            ELSE GweiToWei(globalOptMaxFeePerGas)
    IN [type |-> "DynamicFeeTx", Nonce |-> frame.nonce, To |-> toAddress,
        Value |-> amount, Gas |-> frame.gasLimit,
        GasTipCap |-> maxPriorityFeePerGas, GasFeeCap |-> maxFeePerGas,
        Data |-> data]

\* A legacy transaction that carries no value.
LegacyTxNoValue ==
    [type |-> "LegacyTx", Nonce |-> frame.nonce, To |-> toAddress,
     Value |-> 0, Gas |-> frame.gasLimit,
     GasPrice |-> frame.gasPrice, Data |-> data]

\* Lines 402-409: the legacy transaction.
LegacyTx ==
    [type |-> "LegacyTx", Nonce |-> frame.nonce, To |-> toAddress,
     Value |-> amount, Gas |-> frame.gasLimit,
     GasPrice |-> frame.gasPrice, Data |-> data]

\* Lines 291-410.
BuildTx ==
    /\ op = "Transact" /\ pc = "build"
    /\ frame' = [frame EXCEPT !.tx = IF globalOptTxType = "eip1559"
                                     THEN <<DynamicFeeTx>> ELSE <<LegacyTx>>]
    /\ pc' = "networkID"
    /\ UNCHANGED <<op, errVars, pollVars, recVars, txIn, txEnv, callVars, log, txOut>>

\* Lines 412-415.
QueryNetworkID ==
    /\ op = "Transact" /\ pc = "networkID"
    /\ \E ok \in BOOLEAN :
        /\ Called("NetworkID", ok)
        /\ IF ok
           THEN /\ frame' = [frame EXCEPT !.chainID = <<ChainId>>]
                /\ pc' = "sign"
                /\ UNCHANGED txOut
           ELSE /\ Return(Nil, Wrap("NetworkID fail", RpcErr))
                /\ UNCHANGED frame
    /\ UNCHANGED <<op, errVars, pollVars, recVars, txIn, txEnv, log>>

\* Lines 417-425: sign.  Logging the raw transaction when globalOptShowRawTx
\* changes no state.
SignTx ==
    /\ op = "Transact" /\ pc = "sign"
    /\ \E ok \in BOOLEAN :
        /\ Called("SignTx", ok)
        /\ IF ok
           THEN /\ frame' = [frame EXCEPT !.signedTx =
                                <<[tx |-> frame.tx[1], chainID |-> frame.chainID[1]]>>]
                /\ pc' = "estimateGas"
                /\ UNCHANGED txOut
           ELSE /\ Return(Nil, Wrap("SignTx fail", <<"sign error">>))
                /\ UNCHANGED frame
    /\ UNCHANGED <<op, errVars, pollVars, recVars, txIn, txEnv, log>>

\* Lines 427-442: the gas simulation, made when globalOptShowEstimateGas.
ShowEstimateGas ==
    /\ op = "Transact" /\ pc = "estimateGas"
    /\ \E globalOptShowEstimateGas \in BOOLEAN :
        IF globalOptShowEstimateGas
        THEN \E ok \in BOOLEAN :
                 /\ Called("EstimateGas", ok)
                 /\ IF ok
                    THEN /\ log' = log \cup {"estimate gas"}
                         /\ pc' = "dryRun"
                         /\ UNCHANGED txOut
                    ELSE /\ Return(Nil, Wrap("EstimateGas fail", RpcErr))
                         /\ UNCHANGED log
        ELSE /\ pc' = "dryRun"
             /\ UNCHANGED <<callVars, log, txOut>>
    /\ UNCHANGED <<op, errVars, pollVars, recVars, txIn, txEnv, frame>>

\* A workflow that never looks at globalOptDryRun.
DryRunIgnored ==
    /\ op = "Transact" /\ pc = "dryRun"
    /\ pc' = "send"
    /\ UNCHANGED <<op, errVars, pollVars, recVars, txIn, txEnv, frame, callVars, log, txOut>>

\* Lines 444-447.
DryRunExit ==
    /\ op = "Transact" /\ pc = "dryRun"
    /\ IF globalOptDryRun
       THEN Return(<<HashOf(frame.signedTx[1])>>, NoErr)
       ELSE pc' = "send" /\ UNCHANGED txOut
    /\ UNCHANGED <<op, errVars, pollVars, recVars, txIn, txEnv, frame, callVars, log>>

\* The hashes the node may echo: that of the transaction sent, or that of
\* another transaction.
NodeHashes(stx) == {HashOf(stx), HashOf([stx EXCEPT !.chainID = stx.chainID + 1])}

\* Lines 233-248 and 449-452.
SendRawTransaction ==
    /\ op = "Transact" /\ pc = "send"
    /\ \/ /\ Called("eth_sendRawTransaction", FALSE)
          /\ Return(Nil, Wrap("SendRawTransaction fail", RpcErr))
          /\ UNCHANGED frame
       \/ \E hash \in NodeHashes(frame.signedTx[1]) :
            /\ Called("eth_sendRawTransaction", TRUE)
            /\ frame' = [frame EXCEPT !.rpcReturnTx = <<hash>>]
            /\ pc' = "sent"
            /\ UNCHANGED txOut
    /\ UNCHANGED <<op, errVars, pollVars, recVars, txIn, txEnv, log>>

\* A broadcaster that rejects a node hash differing from the local one.
AfterSendStrict ==
    /\ op = "Transact" /\ pc = "sent"
    /\ IF HashOf(frame.signedTx[1]) # frame.rpcReturnTx[1]
       THEN /\ Return(Nil, <<"tx not same">>)
            /\ UNCHANGED pollVars
       ELSE IF transferNotCheck
            THEN /\ Return(frame.rpcReturnTx, NoErr)
                 /\ UNCHANGED pollVars
            ELSE /\ timeout' = 0
                 /\ beginTime' = now
                 /\ polledHash' = frame.rpcReturnTx
                 /\ source' \in {src \in Sources : src.k <= MaxTxK}
                 /\ pc' = "recheck"
                 /\ UNCHANGED <<now, lookups, waits, rp, rpErr, txOut>>
    /\ UNCHANGED <<op, errVars, recVars, txIn, txEnv, frame, callVars, log>>

\* Lines 454-462: the hash comparison, the skip-confirmation return, and the
\* call getTxReceipt(client, *rpcReturnTx, 0).
AfterSend ==
    /\ op = "Transact" /\ pc = "sent"
    /\ log' = IF HashOf(frame.signedTx[1]) # frame.rpcReturnTx[1]
              THEN log \cup {"warning: tx not same"} ELSE log
    /\ IF transferNotCheck
       THEN /\ Return(frame.rpcReturnTx, NoErr)
            /\ UNCHANGED pollVars
       ELSE /\ timeout' = 0
            /\ beginTime' = now
            /\ polledHash' = frame.rpcReturnTx
            /\ source' \in {src \in Sources : src.k <= MaxTxK}
            /\ pc' = "recheck"
            /\ UNCHANGED <<now, lookups, waits, rp, rpErr, txOut>>
    /\ UNCHANGED <<op, errVars, recVars, txIn, txEnv, frame, callVars>>

\* A check that takes every mined transaction for a successful one.
StatusAlwaysSuccessful(receipt) == TRUE

\* Line 477: rp.Status == types.ReceiptStatusSuccessful.
StatusSuccessful(receipt) == receipt.status = "success"

\* Lines 463-485.  Logging the explorer URL (lines 467-475) changes no state.
ReceiptReturned ==
    /\ op = "Transact" /\ pc = "receiptReturned"
    /\ IF rpErr # NoErr
       THEN /\ Return(Nil, Wrap("getTxReceipt fail", rpErr))
            /\ UNCHANGED log
       ELSE IF ~StatusSuccessful(rp[1])
            THEN /\ Return(Nil, <<"tx minted, but status is failed">>)
                 /\ UNCHANGED log
            ELSE /\ Return(frame.rpcReturnTx, NoErr)
                 /\ log' = IF toAddress = Nil
                           THEN log \cup {"new contract deployed"} ELSE log
    /\ UNCHANGED <<op, errVars, pollVars, recVars, txIn, txEnv, frame, callVars>>

InitTx ==
    /\ op = "Transact"
    /\ pc = "nonce"
    /\ toAddress \in {Nil, <<"0xdest">>}
    /\ amount = AmountArg
    /\ gasPrice \in {Nil, <<GasPriceArg>>}
    /\ data \in {<<>>, <<1>>}
    /\ globalOptNonce \in {-1, NonceOverride}
    /\ globalOptGasLimit \in {0, GasLimitOverride}
    /\ globalOptTxType \in {"legacy", "eip1559"}
    /\ globalOptMaxPriorityFeePerGas \in PriorityFeeStrings
    /\ globalOptMaxFeePerGas \in MaxFeeStrings
    /\ globalOptDryRun \in BOOLEAN
    /\ transferNotCheck \in BOOLEAN
    /\ frame = NoFrame /\ feeHistory = Nil /\ baseFee = Nil /\ destCode = Nil
    /\ calls = {} /\ callErr = NilError /\ log = {} /\ ret = Nil /\ retErr = NoErr
    /\ PollIdle
    /\ RecIdle
    /\ ErrIdle

NextTx ==
    \/ ResolveNonce \/ ResolveGasLimit \/ ResolveGasPrice
    \/ FetchFeeHistory \/ FetchLatestBlock \/ BuildTx
    \/ QueryNetworkID \/ SignTx \/ ShowEstimateGas \/ DryRunExit
    \/ SendRawTransaction \/ AfterSend
    \/ Lookup \/ CheckTimeout \/ Sleep
    \/ ReceiptReturned
    \/ CheckErr \/ GetFuncSig \/ LogFatal

SpecTx == InitTx /\ [][NextTx]_vars

----------------------------------------------------------------------------
\* Properties of getTxReceipt, checked under SpecPoll (C10 under FairPoll).

TimeoutErr == <<"GetReceipt timeout">>
PollDone == op = "getTxReceipt" /\ pc = "done"
ReceiptAfterK == ~source.forever /\ source.final # "error"

\* C1: with timeout > 0 the timeout error is returned only when the time
\* elapsed since polling began has reached the timeout, never while the
\* elapsed time is still below it.
C1_NoEarlyTimeout ==
    (PollDone /\ timeout > 0 /\ rpErr = TimeoutErr) => now - beginTime >= timeout

\* C8: with timeout = 0 and a source answering "not found" exactly K times
\* and then a receipt, getTxReceipt returns that receipt after exactly K+1
\* lookups and K five-second waits, and a timeout error is never returned.
C8_UnboundedPoll ==
    /\ (timeout = 0) => rpErr # TimeoutErr
    /\ (PollDone /\ timeout = 0 /\ ReceiptAfterK) =>
          /\ rp = <<[status |-> source.final]>>
          /\ rpErr = NoErr
          /\ lookups = source.k + 1
          /\ waits = source.k
          /\ now - beginTime >= SleepSeconds * source.k

C8_Witness ==
    /\ PollDone /\ timeout = 0 /\ ReceiptAfterK /\ source.k = MaxK
    /\ rp # Nil /\ waits = MaxK /\ lookups = MaxK + 1

\* C9: with a timeout > 0 shorter than K x 5 seconds and a source answering
\* "not found" exactly K times and then a receipt, getTxReceipt fails with
\* the timeout error and returns no receipt, whatever the lookup latency.
C9_ShortTimeoutFails ==
    (PollDone /\ ReceiptAfterK /\ timeout > 0 /\ timeout < SleepSeconds * source.k)
        => (rp = Nil /\ rpErr = TimeoutErr)

\* C10: with timeout > 0 and a source answering "not found" for ever,
\* getTxReceipt eventually returns the timeout error.
C10_EventuallyTimeout ==
    (timeout > 0 /\ source.forever) ~> (pc = "done" /\ rpErr = TimeoutErr)

\* C11: a lookup error other than "not found" ends polling at once with an
\* error and no receipt: it is the answer to the last lookup made, no wait
\* follows it, and only "not found" answers lead to a wait and a retry.
C11_OtherErrorIsFatal ==
    LET failing == ~source.forever /\ source.final = "error" /\ lookups > source.k IN
    /\ failing => /\ pc = "done"
                  /\ rp = Nil
                  /\ rpErr = <<"TransactionReceipt fail", "rpc error">>
                  /\ lookups = source.k + 1
                  /\ waits = source.k
    /\ (pc \in {"checkTimeout", "sleep"}) => (source.forever \/ lookups <= source.k)
    /\ ~source.forever => waits <= source.k

C11_Witness ==
    /\ PollDone /\ source.final = "error" /\ source.k = MaxK
    /\ rpErr = <<"TransactionReceipt fail", "rpc error">> /\ rp = Nil
    /\ lookups = MaxK + 1 /\ waits = MaxK

----------------------------------------------------------------------------
\* Properties of Transact, checked under SpecTx.

TxDone == op = "Transact" /\ pc = "done"
Built == op = "Transact" /\ frame.tx # Nil
NoFeeOverride ==
    /\ globalOptTxType = "eip1559"
    /\ globalOptMaxPriorityFeePerGas = "" /\ globalOptMaxFeePerGas = ""
MidReward(block) == feeHistory[1][block][2]
LocalHash == HashOf(frame.signedTx[1])
StatusFailedErr == <<"tx minted, but status is failed">>
LookupFailedErr == <<"getTxReceipt fail", "TransactionReceipt fail", "rpc error">>

\* C3 as stated: in dynamic-fee mode with neither fee override, the
\* priority fee is the integer average of the 50th-percentile rewards of
\* the three most recent blocks of the 4-block history, and the max fee is
\* the latest base fee plus that average.
C3_AverageOfNewestThree ==
    (Built /\ NoFeeOverride) =>
        /\ frame.tx[1].GasTipCap = (MidReward(2) + MidReward(3) + MidReward(4)) \div 3
        /\ frame.tx[1].GasFeeCap = baseFee[1] + frame.tx[1].GasTipCap

\* C3 amended: the average is taken over the three oldest blocks of the
\* 4-block history (Reward[0], Reward[1], Reward[2]); the newest block's
\* rewards are not used.
C3_AverageOfOldestThree ==
    (Built /\ NoFeeOverride) =>
        /\ frame.tx[1].GasTipCap = (MidReward(1) + MidReward(2) + MidReward(3)) \div 3
        /\ frame.tx[1].GasFeeCap = baseFee[1] + frame.tx[1].GasTipCap

C3_Witness ==
    /\ Built /\ NoFeeOverride
    /\ MidReward(1) # MidReward(4)
    /\ (MidReward(1) + MidReward(2) + MidReward(3)) % 3 # 0
    /\ frame.tx[1].GasTipCap > 0
    /\ frame.tx[1].GasFeeCap > frame.tx[1].GasTipCap

\* C12: in dynamic-fee mode with both overrides supplied, no fee history
\* and no latest block is fetched, and the tip cap and the fee cap are the
\* overrides times 10^9 wei exactly (0.2 gwei = 200000000 wei, 1 gwei =
\* 1000000000 wei).
C12_OverridesVerbatim ==
    (op = "Transact" /\ globalOptTxType = "eip1559"
        /\ globalOptMaxPriorityFeePerGas # "" /\ globalOptMaxFeePerGas # "") =>
        /\ "FeeHistory" \notin CallsMade
        /\ "BlockByNumber" \notin CallsMade
        /\ feeHistory = Nil /\ baseFee = Nil
        /\ frame.tx # Nil =>
              /\ globalOptMaxPriorityFeePerGas = "0.2" => frame.tx[1].GasTipCap = 200000000
              /\ globalOptMaxFeePerGas = "1" => frame.tx[1].GasFeeCap = 1000000000

C12_Witness ==
    /\ TxDone /\ globalOptTxType = "eip1559" /\ ret # Nil
    /\ globalOptMaxPriorityFeePerGas = "0.2" /\ globalOptMaxFeePerGas = "1"
    /\ frame.tx[1].GasTipCap = 200000000 /\ frame.tx[1].GasFeeCap = 1000000000

\* C13: the gas limit of the built transaction is the override when one is
\* supplied, and then the destination's code is never probed; without an
\* override it is 7,000,000 when there is no destination, the transfer
\* default when the destination has empty code and the payload is empty,
\* and 900,000 when the destination has code or the payload is not empty.
C13_GasLimitHeuristic ==
    (op = "Transact") =>
        /\ globalOptGasLimit # 0 => ("CodeAt" \notin CallsMade /\ destCode = Nil)
        /\ frame.tx # Nil =>
              frame.tx[1].Gas =
                  IF globalOptGasLimit # 0 THEN globalOptGasLimit
                  ELSE IF toAddress = Nil THEN 7000000
                  ELSE IF destCode = <<"empty">> /\ data = <<>> THEN gasUsedByTransferEth
                  ELSE 900000

C13_Witness ==
    /\ Built /\ globalOptGasLimit = 0 /\ toAddress # Nil
    /\ destCode = <<"empty">> /\ data # <<>>
    /\ frame.tx[1].Gas = 900000

\* C17: in legacy mode with a non-negative nonce override, a non-zero
\* gas-limit override and an explicit gas price, the signed transaction has
\* the supplied nonce, gas limit, gas price and value, and none of the
\* estimation queries is made; with a negative nonce sentinel the nonce is
\* the sender's pending nonce.
C17_LegacyOverridesVerbatim ==
    (op = "Transact" /\ globalOptTxType = "legacy") =>
        /\ (globalOptNonce >= 0 /\ globalOptGasLimit # 0 /\ gasPrice # Nil) =>
              /\ CallsMade \cap {"PendingNonceAt", "CodeAt", "getGasPrice",
                                  "FeeHistory", "BlockByNumber"} = {}
              /\ frame.signedTx # Nil =>
                    /\ frame.signedTx[1].tx.type = "LegacyTx"
                    /\ frame.signedTx[1].tx.Nonce = globalOptNonce
                    /\ frame.signedTx[1].tx.Gas = globalOptGasLimit
                    /\ frame.signedTx[1].tx.GasPrice = gasPrice
                    /\ frame.signedTx[1].tx.Value = amount
        /\ (globalOptNonce < 0 /\ frame.signedTx # Nil) =>
              /\ frame.signedTx[1].tx.Nonce = PendingNonce
              /\ <<"PendingNonceAt", TRUE>> \in calls

C17_Witness ==
    /\ TxDone /\ globalOptTxType = "legacy" /\ ret # Nil /\ toAddress # Nil
    /\ globalOptNonce = NonceOverride /\ globalOptGasLimit = GasLimitOverride
    /\ gasPrice = <<GasPriceArg>>
    /\ frame.signedTx[1].tx.Nonce = NonceOverride
    /\ frame.signedTx[1].tx.Value = AmountArg
    /\ CallsMade = {"NetworkID", "SignTx", "eth_sendRawTransaction"}

\* C19: a dynamic-fee transaction built with at most one of the two fee
\* overrides supplied has a fee cap not below its tip cap.
C19_FeeCapCoversTipCap ==
    (Built /\ globalOptTxType = "eip1559"
        /\ (globalOptMaxPriorityFeePerGas = "" \/ globalOptMaxFeePerGas = "")) =>
        frame.tx[1].GasFeeCap >= frame.tx[1].GasTipCap

\* C20: the gas-price source is consulted only for a legacy transaction
\* without a gas-price override; in dynamic-fee mode no gas price is fetched.
C20_GasPriceOnlyForLegacy ==
    (op = "Transact" /\ "getGasPrice" \in CallsMade) =>
        (globalOptTxType = "legacy" /\ gasPrice = Nil)

\* The calls of Transact that go to the node.
RpcCalls ==
    {"PendingNonceAt", "CodeAt", "getGasPrice", "FeeHistory", "BlockByNumber",
     "NetworkID", "EstimateGas", "eth_sendRawTransaction"}
CarriesSelector(e) ==
    e.dataError /\ e.data.kind = "string" /\ Len(e.data.str) >= SelectorLen

\* C14: when Transact has ended after a failed RPC call, it has returned
\* the error to its caller, and if the error carries revert data the
\* selector lookup was made first.
C14_RpcFailuresDiagnosed ==
    (op = "Transact" /\ pc \in {"done", "exited"} /\ FailedCalls \cap RpcCalls # {}) =>
        /\ pc = "done" /\ ret = Nil /\ retErr # NoErr
        /\ CarriesSelector(callErr) =>
              (funcHash # Nil /\ "GetFuncSig" \in CallsMade)

\* C4: every failure of a step inside Transact reaches the caller as a
\* returned error; Transact never terminates the process.
C4_ErrorsReturned ==
    (op = "Transact") =>
        /\ pc # "exited"
        /\ (pc = "done" /\ FailedCalls # {}) => (ret = Nil /\ retErr # NoErr)

\* C5 as stated: with the dry-run flag set, the transaction is never
\* submitted and no receipt is polled; if signing succeeds, Transact
\* returns the locally computed hash of the signed transaction.
C5_DryRunReturnsHash ==
    (op = "Transact" /\ globalOptDryRun) =>
        /\ "eth_sendRawTransaction" \notin CallsMade
        /\ lookups = 0 /\ polledHash = Nil
        /\ (pc = "done" /\ frame.signedTx # Nil) =>
               (ret = <<LocalHash>> /\ retErr = NoErr)

\* C5 amended: ... if signing succeeds and the gas simulation, when it is
\* requested, does not fail, Transact returns the locally computed hash.
C5_DryRunNeverBroadcasts ==
    (op = "Transact" /\ globalOptDryRun) =>
        /\ "eth_sendRawTransaction" \notin CallsMade
        /\ lookups = 0 /\ polledHash = Nil
        /\ (pc = "done" /\ frame.signedTx # Nil /\ "EstimateGas" \notin FailedCalls) =>
               (ret = <<LocalHash>> /\ retErr = NoErr)

C5_Witness ==
    /\ op = "Transact" /\ globalOptDryRun /\ pc = "done"
    /\ frame.signedTx # Nil /\ "EstimateGas" \in CallsMade
    /\ ret = <<LocalHash>>

\* C6: with confirmation not skipped and dry-run off, Transact returns a
\* hash only if a receipt with status success was obtained for that hash; a
\* receipt with failed status makes it return an error distinct from the
\* lookup-failure and timeout errors, and no hash.
C6_SuccessNeedsSuccessfulReceipt ==
    (TxDone /\ ~globalOptDryRun /\ ~transferNotCheck) =>
        /\ ret # Nil =>
              /\ rp = <<[status |-> "success"]>>
              /\ polledHash = ret
              /\ retErr = NoErr
        /\ (rp # Nil /\ rp[1].status = "failed") =>
              /\ ret = Nil
              /\ retErr = StatusFailedErr
              /\ retErr \notin {LookupFailedErr, Wrap("getTxReceipt fail", TimeoutErr)}

C6_Witness ==
    /\ TxDone /\ ~globalOptDryRun /\ ~transferNotCheck
    /\ rp # Nil /\ rp[1].status = "failed" /\ retErr = StatusFailedErr

\* C7: when the node-returned hash differs from the locally computed one,
\* Transact does not fail because of it: the node's hash is the one polled
\* for and the one returned on success.
C7_NodeHashIsUsed ==
    (op = "Transact" /\ frame.rpcReturnTx # Nil /\ frame.rpcReturnTx[1] # LocalHash) =>
        /\ pc \in {"recheck", "checkTimeout", "sleep", "receiptReturned"} =>
              polledHash = frame.rpcReturnTx
        /\ (pc = "done" /\ (transferNotCheck \/ (rp # Nil /\ rp[1].status = "success"))) =>
              (ret = frame.rpcReturnTx /\ retErr = NoErr)
        /\ (pc = "done" /\ retErr # NoErr) =>
              retErr \in {LookupFailedErr, StatusFailedErr}

C7_Witness ==
    /\ TxDone /\ frame.rpcReturnTx # Nil /\ frame.rpcReturnTx[1] # LocalHash
    /\ ~transferNotCheck /\ polledHash = frame.rpcReturnTx
    /\ ret = frame.rpcReturnTx /\ lookups > 1

----------------------------------------------------------------------------
\* Properties of getRecoveryId, checked under SpecRec.

\* C15: getRecoveryId(v) is v for v in {0, 1}, v - 27 for v in {27, 28},
\* 0 for v = 35 + 2k and 1 for v = 36 + 2k, for every k >= 0.
C15_RecoveryIdMapping ==
    (op = "getRecoveryId" /\ pc = "done") =>
        /\ v \in {0, 1} => recoveryId[1] = v
        /\ v \in {27, 28} => recoveryId[1] = v - 27
        /\ \A k \in 0..MaxV :
              /\ v = 35 + 2 * k => recoveryId[1] = 0
              /\ v = 36 + 2 * k => recoveryId[1] = 1

C15_Witness ==
    /\ op = "getRecoveryId" /\ pc = "done"
    /\ \E k \in 1..MaxV : v = 36 + 2 * k
    /\ recoveryId = <<1>>

\* C2: for every integer v, getRecoveryId(v) is 0 or 1, and for v outside
\* {0, 1, 27, 28} it equals v - 35 - 2 * floor((v - 35) / 2).
C2_RecoveryIdIsBit ==
    (op = "getRecoveryId" /\ pc = "done") =>
        /\ recoveryId[1] \in {0, 1}
        /\ v \notin {0, 1, 27, 28} => recoveryId[1] = v - 35 - 2 * ((v - 35) \div 2)

----------------------------------------------------------------------------
\* Properties of buildECDSASignature, checked under SpecSig.

\* C16: for r and s of at most 32 bytes and any v, the result has exactly 65
\* bytes, r right-aligned and zero-padded in the first 32, s in the next
\* 32, and the recovery id derived from v, which is 0 or 1, as the last.
C16_CompactSignature ==
    (op = "buildECDSASignature" /\ pc = "done") =>
        /\ Len(signature) = 65
        /\ \A i \in 1..32 :
              /\ signature[i] = IF i <= 32 - Len(r) THEN 0 ELSE r[i - (32 - Len(r))]
              /\ signature[32 + i] = IF i <= 32 - Len(s) THEN 0 ELSE s[i - (32 - Len(s))]
        /\ signature[65] \in {0, 1}
        /\ v \notin {0, 1, 27, 28} => signature[65] = v - 35 - 2 * ((v - 35) \div 2)

----------------------------------------------------------------------------
\* Properties of checkErr, checked under SpecErr.

\* C18: whatever the selector lookup returns, and whether it is made at
\* all, a non-nil error passed to checkErr never makes it return, and the
\* error reported is that error; the lookup is made exactly for string error
\* data of 10 characters or more, with its first 10 characters.
C18_LookupNeverChangesReport ==
    (op = "checkErr") =>
        /\ callErr # NilError => pc # "done"
        /\ pc = "exited" => fatal = <<callErr>>
        /\ fatal # Nil => (pc = "exited" /\ callErr # NilError)
        /\ funcHash # Nil =>
              /\ callErr.dataError /\ callErr.data.kind = "string"
              /\ Len(callErr.data.str) >= 10
              /\ funcHash = <<SubSeq(callErr.data.str, 1, 10)>>
        /\ funcSig # Nil => funcHash # Nil
        /\ (pc \in {"fatal", "exited"} /\ CarriesSelector(callErr)) => funcSig # Nil

C18_Witness ==
    /\ op = "checkErr" /\ pc = "exited"
    /\ Len(callErr.data.str) > 10
    /\ funcSig # Nil /\ funcSig[1].err # NilError
    /\ fatal = <<callErr>>

====
